---- MODULE Spec2Model ----
(***************************************************************************)
(* Model of src/src/index.ts: SignalBindingImpl, Signal and AsyncSignal.   *)
(*                                                                         *)
(* Bindings are numbered 1..MaxBindings in the order `new                  *)
(* SignalBindingImpl` creates them; Null (0) is the null reference.  Two   *)
(* dispatchers exist: "sig" is a Signal and "async" is an AsyncSignal.     *)
(* A dispatch that is inside its while loop is a frame on `stack`; the     *)
(* handler of the top frame's node is the code that is running, and every  *)
(* operation taken while the stack is non-empty is a call made by that     *)
(* handler.  With an empty stack the caller is the user's own code.        *)
(***************************************************************************)
EXTENDS Integers, Sequences, FiniteSets, TLC

\* ---- bounds of the model
MaxBindings == 3
MaxDepth == 2
MaxPromises == 1
MaxArgs == 6

\* ---- the null reference (index.ts:24-26)
Null == 0

Signals == {"sig", "async"}
NoOwner == "null"
Bindings == 1..MaxBindings

VARIABLES
    nb,        \* number of SignalBindingImpl objects constructed so far
    once,      \* SignalBindingImpl.once
    next,      \* SignalBindingImpl.next
    prev,      \* SignalBindingImpl.prev
    owner,     \* SignalBindingImpl.owner
    head,      \* Signal._head
    tail,      \* Signal._tail
    enabled,   \* Signal.enabled
    stack,     \* dispatch loops in progress, innermost last
    fired,     \* how many times the fn of each once-binding has been invoked
    promises,  \* the promises AsyncSignal.dispatch has returned
    got,       \* the arguments the fn invoked last was called with, and
               \* NotHeard throughout in the specifications that do not
               \* follow arguments
    ret        \* what the step just taken gave its caller, when that step is a
               \* Signal.detach, a Binding.detach or the end of a dispatch, and
               \* "none" after any other step; "off" throughout in the
               \* specifications that do not record it

listVars == <<next, prev, owner, head, tail>>
vars == <<nb, once, next, prev, owner, head, tail, enabled, stack, fired,
          promises, got, ret>>

\* ---- the linked structure as one value, so that operations compose
Cur == [next |-> next, prev |-> prev, owner |-> owner, head |-> head, tail |-> tail]

Install(L) ==
    /\ next' = L.next
    /\ prev' = L.prev
    /\ owner' = L.owner
    /\ head' = L.head
    /\ tail' = L.tail

\* ---- Signal.handlers(): follow next from _head until null.  The fuel only
\* ---- keeps the definition total should the links ever form a cycle.
RECURSIVE Walk(_, _, _)
Walk(L, node, fuel) ==
    IF node = Null \/ fuel = 0 THEN <<>>
    ELSE <<node>> \o Walk(L, L.next[node], fuel - 1)

HandlersOf(L, s) == Walk(L, L.head[s], MaxBindings + 1)

handlers(s) == HandlersOf(Cur, s)

hasAny(s) == head[s] # Null

has(s, node) == owner[node] = s

Range(q) == {q[i] : i \in 1..Len(q)}

\* ---- Signal.detach
DetachClearsLinks(L, s, node) ==
    IF L.owner[node] # s THEN L
    ELSE
      LET nx == IF L.prev[node] # Null
                THEN [L.next EXCEPT ![L.prev[node]] = L.next[node]]
                ELSE L.next
          pv == IF nx[node] # Null
                THEN [L.prev EXCEPT ![nx[node]] = L.prev[node]]
                ELSE L.prev
          isHead == node = L.head[s]
          isTail == node = L.tail[s]
          hd == IF isHead THEN [L.head EXCEPT ![s] = nx[node]] ELSE L.head
          tl == IF isHead
                THEN (IF nx[node] = Null THEN [L.tail EXCEPT ![s] = Null] ELSE L.tail)
                ELSE IF isTail THEN [L.tail EXCEPT ![s] = pv[node]]
                ELSE L.tail
          nx2 == IF ~isHead /\ isTail /\ tl[s] # Null
                 THEN [nx EXCEPT ![tl[s]] = Null]
                 ELSE nx
      IN  [next  |-> [nx2 EXCEPT ![node] = Null],
           prev  |-> [pv EXCEPT ![node] = Null],
           head  |-> hd,
           tail  |-> tl,
           owner |-> [L.owner EXCEPT ![node] = NoOwner]]

DetachAnyOwner(L, s, node) ==
    LET nx == IF L.prev[node] # Null
              THEN [L.next EXCEPT ![L.prev[node]] = L.next[node]]
              ELSE L.next
        pv == IF nx[node] # Null
              THEN [L.prev EXCEPT ![nx[node]] = L.prev[node]]
              ELSE L.prev
        isHead == node = L.head[s]
        isTail == node = L.tail[s]
        hd == IF isHead THEN [L.head EXCEPT ![s] = nx[node]] ELSE L.head
        tl == IF isHead
              THEN (IF nx[node] = Null THEN [L.tail EXCEPT ![s] = Null] ELSE L.tail)
              ELSE IF isTail THEN [L.tail EXCEPT ![s] = pv[node]]
              ELSE L.tail
        nx2 == IF ~isHead /\ isTail /\ tl[s] # Null
               THEN [nx EXCEPT ![tl[s]] = Null]
               ELSE nx
    IN  [next  |-> nx2,
         prev  |-> pv,
         head  |-> hd,
         tail  |-> tl,
         owner |-> [L.owner EXCEPT ![node] = NoOwner]]

DetachKeepsTail(L, s, node) ==
    IF L.owner[node] # s THEN L
    ELSE
      LET nx == IF L.prev[node] # Null
                THEN [L.next EXCEPT ![L.prev[node]] = L.next[node]]
                ELSE L.next
          pv == IF nx[node] # Null
                THEN [L.prev EXCEPT ![nx[node]] = L.prev[node]]
                ELSE L.prev
          isHead == node = L.head[s]
          hd == IF isHead THEN [L.head EXCEPT ![s] = nx[node]] ELSE L.head
          tl == IF isHead /\ nx[node] = Null
                THEN [L.tail EXCEPT ![s] = Null]
                ELSE L.tail
      IN  [next  |-> nx,
           prev  |-> pv,
           head  |-> hd,
           tail  |-> tl,
           owner |-> [L.owner EXCEPT ![node] = NoOwner]]

DetachSkipsPrevNext(L, s, node) ==
    IF L.owner[node] # s THEN L
    ELSE
      LET nx == L.next
          pv == IF nx[node] # Null
                THEN [L.prev EXCEPT ![nx[node]] = L.prev[node]]
                ELSE L.prev
          isHead == node = L.head[s]
          isTail == node = L.tail[s]
          hd == IF isHead THEN [L.head EXCEPT ![s] = nx[node]] ELSE L.head
          tl == IF isHead
                THEN (IF nx[node] = Null THEN [L.tail EXCEPT ![s] = Null] ELSE L.tail)
                ELSE IF isTail THEN [L.tail EXCEPT ![s] = pv[node]]
                ELSE L.tail
      IN  [next  |-> nx,
           prev  |-> pv,
           head  |-> hd,
           tail  |-> tl,
           owner |-> [L.owner EXCEPT ![node] = NoOwner]]

DetachSkipsNextPrev(L, s, node) ==
    IF L.owner[node] # s THEN L
    ELSE
      LET nx == IF L.prev[node] # Null
                THEN [L.next EXCEPT ![L.prev[node]] = L.next[node]]
                ELSE L.next
          pv == L.prev
          isHead == node = L.head[s]
          isTail == node = L.tail[s]
          hd == IF isHead THEN [L.head EXCEPT ![s] = nx[node]] ELSE L.head
          tl == IF isHead
                THEN (IF nx[node] = Null THEN [L.tail EXCEPT ![s] = Null] ELSE L.tail)
                ELSE IF isTail THEN [L.tail EXCEPT ![s] = pv[node]]
                ELSE L.tail
          nx2 == IF ~isHead /\ isTail /\ tl[s] # Null
                 THEN [nx EXCEPT ![tl[s]] = Null]
                 ELSE nx
      IN  [next  |-> nx2,
           prev  |-> pv,
           head  |-> hd,
           tail  |-> tl,
           owner |-> [L.owner EXCEPT ![node] = NoOwner]]

Detach(L, s, node) ==
    IF L.owner[node] # s THEN L
    ELSE
      LET nx == IF L.prev[node] # Null
                THEN [L.next EXCEPT ![L.prev[node]] = L.next[node]]
                ELSE L.next
          pv == IF nx[node] # Null
                THEN [L.prev EXCEPT ![nx[node]] = L.prev[node]]
                ELSE L.prev
          isHead == node = L.head[s]
          isTail == node = L.tail[s]
          hd == IF isHead THEN [L.head EXCEPT ![s] = nx[node]] ELSE L.head
          tl == IF isHead
                THEN (IF nx[node] = Null THEN [L.tail EXCEPT ![s] = Null] ELSE L.tail)
                ELSE IF isTail THEN [L.tail EXCEPT ![s] = pv[node]]
                ELSE L.tail
          nx2 == IF ~isHead /\ isTail /\ tl[s] # Null
                 THEN [nx EXCEPT ![tl[s]] = Null]
                 ELSE nx
      IN  [next  |-> nx2,
           prev  |-> pv,
           head  |-> hd,
           tail  |-> tl,
           owner |-> [L.owner EXCEPT ![node] = NoOwner]]

\* ---- Signal.detachAll
RECURSIVE ClearOwners(_, _, _)
ClearOwners(L, node, fuel) ==
    IF node = Null \/ fuel = 0 THEN L.owner
    ELSE [ClearOwners(L, L.next[node], fuel - 1) EXCEPT ![node] = NoOwner]

DetachAllKeepsOwners(L, s) ==
    IF L.head[s] = Null THEN L
    ELSE [L EXCEPT !.head = [L.head EXCEPT ![s] = Null],
                   !.tail = [L.tail EXCEPT ![s] = Null]]

DetachAll(L, s) ==
    IF L.head[s] = Null THEN L
    ELSE [L EXCEPT !.head = [L.head EXCEPT ![s] = Null],
                   !.tail = [L.tail EXCEPT ![s] = Null],
                   !.owner = ClearOwners(L, L.head[s], MaxBindings + 1)]

\* ---- Signal._addSignalBinding, for a freshly constructed node
AddPrepends(L, s, node) ==
    IF L.head[s] = Null
    THEN [L EXCEPT !.head = [L.head EXCEPT ![s] = node],
                   !.tail = [L.tail EXCEPT ![s] = node],
                   !.owner = [L.owner EXCEPT ![node] = s]]
    ELSE [L EXCEPT !.next = [L.next EXCEPT ![node] = L.head[s]],
                   !.prev = [L.prev EXCEPT ![L.head[s]] = node],
                   !.head = [L.head EXCEPT ![s] = node],
                   !.owner = [L.owner EXCEPT ![node] = s]]

AddLeavesOwner(L, s, node) ==
    IF L.head[s] = Null
    THEN [L EXCEPT !.head = [L.head EXCEPT ![s] = node],
                   !.tail = [L.tail EXCEPT ![s] = node]]
    ELSE LET nx == IF L.tail[s] # Null
                   THEN [L.next EXCEPT ![L.tail[s]] = node]
                   ELSE L.next
         IN  [L EXCEPT !.next = nx,
                       !.prev = [L.prev EXCEPT ![node] = L.tail[s]],
                       !.tail = [L.tail EXCEPT ![s] = node]]

AddSignalBinding(L, s, node) ==
    IF L.head[s] = Null
    THEN [L EXCEPT !.head = [L.head EXCEPT ![s] = node],
                   !.tail = [L.tail EXCEPT ![s] = node],
                   !.owner = [L.owner EXCEPT ![node] = s]]
    ELSE LET nx == IF L.tail[s] # Null
                   THEN [L.next EXCEPT ![L.tail[s]] = node]
                   ELSE L.next
         IN  [L EXCEPT !.next = nx,
                       !.prev = [L.prev EXCEPT ![node] = L.tail[s]],
                       !.tail = [L.tail EXCEPT ![s] = node],
                       !.owner = [L.owner EXCEPT ![node] = s]]

\* ---- one iteration of the while loop of Signal.dispatch up to the call of
\* ---- node.fn: a once-binding is detached first (index.ts:110-111)
VisitKeepsOnce(L, s, node) == L

Visit(L, s, node) == IF once[node] THEN Detach(L, s, node) ELSE L

\* ---- a dispatch in progress.  sig, node, p and args are the loop's own
\* ---- state (this, node, the resolve callback it forwards, the arguments
\* ---- its caller supplied).  The other fields
\* ---- observe it: snap is handlers() when the loop started and trace the
\* ---- bindings invoked so far, both kept only while no handler has changed
\* ---- the list of sig (mut); owed holds the bindings that were behind a
\* ---- binding when its own handler detached it and that the loop has not
\* ---- invoked yet; paid says that it has invoked one of those.
Top == stack[Len(stack)]

Pop(st) == SubSeq(st, 1, Len(st) - 1)

Frame(s, node, p, a) ==
    [sig |-> s, node |-> node, p |-> p, args |-> a, snap |-> handlers(s),
     trace |-> <<node>>, mut |-> FALSE, owed |-> {}, paid |-> FALSE]

MarkMut(st, s, changed) ==
    [i \in DOMAIN st |->
        IF changed /\ st[i].sig = s
        THEN [st[i] EXCEPT !.mut = TRUE, !.snap = <<>>, !.trace = <<>>]
        ELSE st[i]]

\* the bindings behind node in the list of s
After(s, node) ==
    LET h == handlers(s)
    IN  {h[j] : j \in {k \in 1..Len(h) : \E i \in 1..Len(h) : h[i] = node /\ i < k}}

\* the running handler detaches the binding it was invoked for
SelfDetach(s, node) ==
    /\ stack # <<>>
    /\ Top.node = node
    /\ Top.sig = s
    /\ owner[node] = s

NoteDetach(st, s, node) ==
    LET m == MarkMut(st, s, owner[node] = s)
    IN  IF SelfDetach(s, node)
        THEN [m EXCEPT ![Len(m)].owed = @ \cup After(s, node)]
        ELSE m

\* the loop of frame f moves on to node and invokes its fn
Step(f, node) ==
    [f EXCEPT !.node = node,
              !.trace = IF f.mut THEN <<>> ELSE Append(@, node),
              !.owed = @ \ {node},
              !.paid = @ \/ node \in f.owed]

Fire(node) == IF once[node] THEN [fired EXCEPT ![node] = @ + 1] ELSE fired

\* ---- arguments.  A caller supplies the list 1, 2, .., k; the resolve
\* ---- callback AsyncSignal.dispatch puts in front of it is 0.
ResolveFn == 0

ArgLists == {[i \in 1..k |-> i] : k \in 0..MaxArgs}

NotHeard == <<-1>>

Sends == IF got = NotHeard THEN {<<>>} ELSE ArgLists

Heard(v) == IF got = NotHeard THEN NotHeard ELSE v

\* what Signal.dispatch finds in `args` (index.ts:259 for an AsyncSignal)
Passed(s, a) == IF s = "async" THEN <<ResolveFn>> \o a ELSE a

\* the switch on arguments.length: what node.fn is called with
ForwardAtMostFive(args) ==
    LET len == Len(args)
    IN  CASE len = 0 -> <<>>
          [] len = 1 -> <<args[1]>>
          [] len = 2 -> <<args[1], args[2]>>
          [] len = 3 -> <<args[1], args[2], args[3]>>
          [] len = 4 -> <<args[1], args[2], args[3], args[4]>>
          [] OTHER -> <<args[1], args[2], args[3], args[4], args[5]>>

Forward(args) ==
    LET len == Len(args)
    IN  CASE len = 0 -> <<>>
          [] len = 1 -> <<args[1]>>
          [] len = 2 -> <<args[1], args[2]>>
          [] len = 3 -> <<args[1], args[2], args[3]>>
          [] len = 4 -> <<args[1], args[2], args[3], args[4]>>
          [] len = 5 -> <<args[1], args[2], args[3], args[4], args[5]>>
          [] OTHER -> args

Free == [inner |-> "none", st |-> "free", given |-> FALSE]

\* what an action leaves in ret
Said(v) == IF ret = "off" THEN "off" ELSE v

Init ==
    /\ nb = 0
    /\ once = [b \in Bindings |-> FALSE]
    /\ next = [b \in Bindings |-> Null]
    /\ prev = [b \in Bindings |-> Null]
    /\ owner = [b \in Bindings |-> NoOwner]
    /\ head = [s \in Signals |-> Null]
    /\ tail = [s \in Signals |-> Null]
    /\ enabled = [s \in Signals |-> TRUE]
    /\ stack = <<>>
    /\ fired = [b \in Bindings |-> 0]
    /\ promises = [p \in 1..MaxPromises |-> Free]
    /\ got = NotHeard
    /\ ret = "off"

\* the same, with return values recorded
InitSaid ==
    /\ nb = 0
    /\ once = [b \in Bindings |-> FALSE]
    /\ next = [b \in Bindings |-> Null]
    /\ prev = [b \in Bindings |-> Null]
    /\ owner = [b \in Bindings |-> NoOwner]
    /\ head = [s \in Signals |-> Null]
    /\ tail = [s \in Signals |-> Null]
    /\ enabled = [s \in Signals |-> TRUE]
    /\ stack = <<>>
    /\ fired = [b \in Bindings |-> 0]
    /\ promises = [p \in 1..MaxPromises |-> Free]
    /\ got = NotHeard
    /\ ret = "none"

\* the same, with the arguments of each call recorded
InitArgs ==
    /\ nb = 0
    /\ once = [b \in Bindings |-> FALSE]
    /\ next = [b \in Bindings |-> Null]
    /\ prev = [b \in Bindings |-> Null]
    /\ owner = [b \in Bindings |-> NoOwner]
    /\ head = [s \in Signals |-> Null]
    /\ tail = [s \in Signals |-> Null]
    /\ enabled = [s \in Signals |-> TRUE]
    /\ stack = <<>>
    /\ fired = [b \in Bindings |-> 0]
    /\ promises = [p \in 1..MaxPromises |-> Free]
    /\ got = <<>>
    /\ ret = "off"

\* ---- Signal.add (isOnce = FALSE), Signal.once (isOnce = TRUE), AsyncSignal.add
Add(s, isOnce) ==
    /\ nb < MaxBindings
    /\ nb' = nb + 1
    /\ once' = [once EXCEPT ![nb + 1] = isOnce]
    /\ Install(AddSignalBinding(Cur, s, nb + 1))
    /\ stack' = MarkMut(stack, s, TRUE)
    /\ ret' = Said("none")
    /\ UNCHANGED <<enabled, fired, promises, got>>

\* ---- Signal.detach(node) called on signal s
SignalDetach(s, node) ==
    /\ node \in 1..nb
    /\ Install(Detach(Cur, s, node))
    /\ stack' = NoteDetach(stack, s, node)
    /\ ret' = Said("this")
    /\ UNCHANGED <<nb, once, enabled, fired, promises, got>>

\* ---- SignalBindingImpl.detach
BindingDetachAlwaysTrue(node) ==
    /\ node \in 1..nb
    /\ IF owner[node] = NoOwner
       THEN /\ ret' = Said("true")
            /\ UNCHANGED <<listVars, stack>>
       ELSE /\ Install(Detach(Cur, owner[node], node))
            /\ stack' = NoteDetach(stack, owner[node], node)
            /\ ret' = Said("true")
    /\ UNCHANGED <<nb, once, enabled, fired, promises, got>>

BindingDetach(node) ==
    /\ node \in 1..nb
    /\ IF owner[node] = NoOwner
       THEN /\ ret' = Said("false")
            /\ UNCHANGED <<listVars, stack>>
       ELSE /\ Install(Detach(Cur, owner[node], node))
            /\ stack' = NoteDetach(stack, owner[node], node)
            /\ ret' = Said("true")
    /\ UNCHANGED <<nb, once, enabled, fired, promises, got>>

\* ---- Signal.detachAll
SignalDetachAll(s) ==
    /\ Install(DetachAll(Cur, s))
    /\ stack' = MarkMut(stack, s, head[s] # Null)
    /\ ret' = Said("none")
    /\ UNCHANGED <<nb, once, enabled, fired, promises, got>>

\* ---- assignment to Signal.enabled
SetEnabled(s, v) ==
    /\ enabled[s] # v
    /\ enabled' = [enabled EXCEPT ![s] = v]
    /\ ret' = Said("none")
    /\ UNCHANGED <<nb, once, listVars, stack, fired, promises, got>>

\* ---- promises.  AsyncSignal.dispatch is an async function: `st` is the
\* ---- state of the promise it returns, `inner` that of the promise it
\* ---- awaits ("none" when it returned before creating one), `given` says
\* ---- whether some handler has received the resolve callback.  The model
\* ---- follows at most MaxPromises promises at a time: a slot is Free
\* ---- until a dispatch returns its promise and again once Forget drops it.
NewPromise(in, st, given) == [inner |-> in, st |-> st, given |-> given]

Slots == 1..MaxPromises

FreeSlots == {p \in Slots : promises[p] = Free}

Slot == CHOOSE p \in FreeSlots : \A q \in FreeSlots : p <= q

Returned(s) == IF s = "async" THEN "promise" ELSE "returned"

\* ---- Signal.dispatch / AsyncSignal.dispatch up to the first handler call
DispatchIgnoresEnabled(s) ==
    \E a \in Sends :
      /\ s = "async" => FreeSlots # {}
      /\ IF head[s] = Null
         THEN /\ ret' = Said(Returned(s))
              /\ promises' = IF s = "async"
                             THEN [promises EXCEPT ![Slot] = NewPromise("pending", "pending", FALSE)]
                             ELSE promises
              /\ UNCHANGED <<listVars, stack, fired, got>>
         ELSE /\ Len(stack) < MaxDepth
              /\ LET node == head[s]
                     L == Visit(Cur, s, node)
                 IN  /\ Install(L)
                     /\ promises' = IF s = "async"
                                    THEN [promises EXCEPT ![Slot] = NewPromise("pending", "pending", TRUE)]
                                    ELSE promises
                     /\ stack' = Append(MarkMut(stack, s, L # Cur),
                                        Frame(s, node, IF s = "async" THEN Slot ELSE Null, a))
                     /\ fired' = Fire(node)
                     /\ got' = Heard(Forward(Passed(s, a)))
                     /\ ret' = Said("none")
      /\ UNCHANGED <<nb, once, enabled>>

DispatchWithoutAwait(s) ==
    \E a \in Sends :
      /\ s = "async" => FreeSlots # {}
      /\ IF ~enabled[s]
         THEN /\ ret' = Said(Returned(s))
              /\ promises' = IF s = "async"
                             THEN [promises EXCEPT ![Slot] = NewPromise("none", "resolved", FALSE)]
                             ELSE promises
              /\ UNCHANGED <<listVars, stack, fired, got>>
         ELSE IF head[s] = Null
         THEN /\ ret' = Said(Returned(s))
              /\ promises' = IF s = "async"
                             THEN [promises EXCEPT ![Slot] = NewPromise("pending", "pending", FALSE)]
                             ELSE promises
              /\ UNCHANGED <<listVars, stack, fired, got>>
         ELSE /\ Len(stack) < MaxDepth
              /\ LET node == head[s]
                     L == Visit(Cur, s, node)
                 IN  /\ Install(L)
                     /\ promises' = IF s = "async"
                                    THEN [promises EXCEPT ![Slot] = NewPromise("pending", "resolved", TRUE)]
                                    ELSE promises
                     /\ stack' = Append(MarkMut(stack, s, L # Cur),
                                        Frame(s, node, IF s = "async" THEN Slot ELSE Null, a))
                     /\ fired' = Fire(node)
                     /\ got' = Heard(Forward(Passed(s, a)))
                     /\ ret' = Said("none")
      /\ UNCHANGED <<nb, once, enabled>>

Dispatch(s) ==
    \E a \in Sends :
      /\ s = "async" => FreeSlots # {}
      /\ IF ~enabled[s]
         THEN /\ ret' = Said(Returned(s))
              /\ promises' = IF s = "async"
                             THEN [promises EXCEPT ![Slot] = NewPromise("none", "resolved", FALSE)]
                             ELSE promises
              /\ UNCHANGED <<listVars, stack, fired, got>>
         ELSE IF head[s] = Null
         THEN /\ ret' = Said(Returned(s))
              /\ promises' = IF s = "async"
                             THEN [promises EXCEPT ![Slot] = NewPromise("pending", "pending", FALSE)]
                             ELSE promises
              /\ UNCHANGED <<listVars, stack, fired, got>>
         ELSE /\ Len(stack) < MaxDepth
              /\ LET node == head[s]
                     L == Visit(Cur, s, node)
                 IN  /\ Install(L)
                     /\ promises' = IF s = "async"
                                    THEN [promises EXCEPT ![Slot] = NewPromise("pending", "pending", TRUE)]
                                    ELSE promises
                     /\ stack' = Append(MarkMut(stack, s, L # Cur),
                                        Frame(s, node, IF s = "async" THEN Slot ELSE Null, a))
                     /\ fired' = Fire(node)
                     /\ got' = Heard(Forward(Passed(s, a)))
                     /\ ret' = Said("none")
      /\ UNCHANGED <<nb, once, enabled>>

\* ---- the running handler returns: `node = node.next` and the next turn of
\* ---- the while loop, or the end of the loop (index.ts:108-135)
HandlerReturn ==
    /\ stack # <<>>
    /\ LET f == Top
           node == next[f.node]
       IN  IF node = Null
           THEN /\ stack' = Pop(stack)
                /\ ret' = Said(Returned(f.sig))
                /\ UNCHANGED <<listVars, fired, got>>
           ELSE LET L == Visit(Cur, f.sig, node)
                IN  /\ Install(L)
                    /\ stack' = Append(MarkMut(Pop(stack), f.sig, L # Cur), Step(f, node))
                    /\ fired' = Fire(node)
                    /\ got' = Heard(Forward(Passed(f.sig, f.args)))
                    /\ ret' = Said("none")
    /\ UNCHANGED <<nb, once, enabled, promises>>

HandlerThrowSwallowed == HandlerReturn

\* ---- the running handler throws.  Signal.dispatch has no try/catch, so the
\* ---- loop is left; inside AsyncSignal.dispatch the throw happens in the
\* ---- Promise executor, which catches it ("caught"): it rejects a promise
\* ---- that is still pending and is dropped otherwise (index.ts:256-260)
HandlerThrow ==
    /\ stack # <<>>
    /\ stack' = Pop(stack)
    /\ IF Top.sig = "async"
       THEN /\ ret' = Said("caught")
            /\ promises' = [promises EXCEPT ![Top.p].inner =
                               IF @ = "pending" THEN "rejected" ELSE @]
       ELSE /\ ret' = Said("fault")
            /\ UNCHANGED promises
    /\ UNCHANGED <<nb, once, listVars, enabled, fired, got>>

\* ---- a handler that was given the resolve callback of promise p calls it,
\* ---- during its invocation or at any later time
Resolve(p) ==
    /\ promises[p].given
    /\ promises[p].inner = "pending"
    /\ promises' = [promises EXCEPT ![p].inner = "resolved"]
    /\ ret' = Said("none")
    /\ UNCHANGED <<nb, once, listVars, enabled, stack, fired, got>>

\* ---- the `await` of AsyncSignal.dispatch resumes once the awaited promise
\* ---- is settled and no synchronous code is running
Settle(p) ==
    /\ stack = <<>>
    /\ promises[p].st = "pending"
    /\ promises[p].inner \in {"resolved", "rejected"}
    /\ promises' = [promises EXCEPT ![p].st = promises[p].inner]
    /\ ret' = Said("none")
    /\ UNCHANGED <<nb, once, listVars, enabled, stack, fired, got>>

\* ---- the caller drops promise p and the model stops following it: it is
\* ---- settled, or it is pending with no handler holding its resolve
\* ---- callback, and stays so
Forget(p) ==
    /\ stack = <<>>
    /\ promises[p].st \in {"resolved", "rejected"}
         \/ (promises[p].st = "pending" /\ ~promises[p].given)
    /\ promises' = [promises EXCEPT ![p] = Free]
    /\ ret' = Said("none")
    /\ UNCHANGED <<nb, once, listVars, enabled, stack, fired, got>>

\* ---- Signal on its own: the list operations of both signals and
\* ---- Signal.dispatch, with handlers that call any of them or throw
Next ==
    \/ \E s \in Signals, isOnce \in BOOLEAN : Add(s, isOnce)
    \/ \E s \in Signals, node \in Bindings : SignalDetach(s, node)
    \/ \E node \in Bindings : BindingDetach(node)
    \/ \E s \in Signals : SignalDetachAll(s)
    \/ Dispatch("sig")
    \/ HandlerReturn
    \/ HandlerThrow

Spec == Init /\ [][Next]_vars

\* ---- the same with return values recorded
SpecSaid == InitSaid /\ [][Next]_vars

\* ---- the whole module: the enabled gate and AsyncSignal.dispatch as well
NextFull ==
    \/ Next
    \/ \E s \in Signals, v \in BOOLEAN : SetEnabled(s, v)
    \/ Dispatch("async")
    \/ \E p \in Slots : Resolve(p)
    \/ \E p \in Slots : Settle(p)
    \/ \E p \in Slots : Forget(p)

SpecFull == InitSaid /\ [][NextFull]_vars

\* ======================================================================
\* Properties
\* ======================================================================

\* the step invokes the fn of binding b from a dispatch loop of signal s
InvokeStep(s, b) ==
    \/ /\ b # Null
       /\ head[s] = b
       /\ enabled[s]
       /\ Dispatch(s)
    \/ /\ b # Null
       /\ stack # <<>>
       /\ Top.sig = s
       /\ next[Top.node] = b
       /\ HandlerReturn

\* the step ends the innermost dispatch loop by running off the list
LoopEnds ==
    /\ stack # <<>>
    /\ next[Top.node] = Null
    /\ HandlerReturn

Attached(s) == {b \in Bindings : owner[b] = s}

RECURSIVE Ascending(_)
Ascending(S) ==
    IF S = {} THEN <<>>
    ELSE LET m == CHOOSE x \in S : \A y \in S : x <= y
         IN  <<m>> \o Ascending(S \ {m})

IsPrefix(p, q) == Len(p) <= Len(q) /\ SubSeq(q, 1, Len(p)) = p

\* C1: a binding registered via once is invoked at most once in total,
\* across sequential and re-entrant dispatch calls.
OnceInvokedAtMostOnce == \A b \in Bindings : fired[b] <= 1

\* C2: every handler that a dispatch loop invokes belongs to a binding that
\* is attached to the signal when the loop reaches it; a detached binding's
\* handler is never called again.
InvokedOnlyWhileAttached ==
    [][\A s \in Signals, b \in Bindings : InvokeStep(s, b) => owner[b] = s]_vars

\* C3: handlers() is the attached bindings in insertion order, and a dispatch
\* whose handlers leave the list alone invokes exactly the bindings that
\* handlers() held when it started, once each and in that order.
InsertionOrder ==
    [][/\ \A s \in Signals : handlers(s)' = Ascending(Attached(s))'
       /\ \A i \in 1..Len(stack') :
            ~stack'[i].mut =>
               /\ IsPrefix(stack'[i].trace, stack'[i].snap)
               /\ stack'[i].trace[Len(stack'[i].trace)] = stack'[i].node
       /\ (LoopEnds /\ ~Top.mut) => Top.trace = Top.snap]_vars

InsertionOrderWitness ==
    /\ stack # <<>>
    /\ ~Top.mut
    /\ Len(Top.snap) = 3
    /\ Top.trace = Top.snap
    /\ once[Top.snap[1]]
    /\ handlers(Top.sig) = <<Top.snap[2], Top.snap[3]>>

\* C4: a once-binding is out of the list when its handler is invoked: has is
\* false, handlers() does not hold it, hasAny() is false if it was the only
\* binding; and it stays out afterwards.
OnceRemovedBeforeInvoke ==
    [][/\ \A s \in Signals, b \in Bindings :
            (InvokeStep(s, b) /\ once[b]) =>
               /\ ~has(s, b)'
               /\ b \notin Range(handlers(s))'
               /\ (handlers(s) = <<b>> => ~hasAny(s)')
       /\ \A s \in Signals, b \in Bindings :
            fired[b] > 0 => (~has(s, b)' /\ b \notin Range(handlers(s))')]_vars

OnceRemovedWitness ==
    /\ stack # <<>>
    /\ once[Top.node]
    /\ fired[Top.node] = 1
    /\ Top.snap = <<Top.node>>
    /\ ~hasAny(Top.sig)
    /\ ~has(Top.sig, Top.node)

\* C5: after a handler has detached its own (non-once) binding, every binding
\* that was behind it and is still attached lies ahead on the chain of next
\* links the loop follows, in list order; so the loop does not break off and
\* a dispatch that runs to the end of its loop has invoked each of them.
Ahead(f) == Walk(Cur, next[f.node], MaxBindings + 1)

SelfDetachKeepsSuccessors ==
    \A i \in 1..Len(stack) :
        LET f == stack[i]
            due == {c \in f.owed : owner[c] = f.sig}
        IN  /\ due \subseteq Range(Ahead(f))
            /\ SelectSeq(Ahead(f), LAMBDA c : c \in due) = Ascending(due)

SelfDetachWitness ==
    /\ stack # <<>>
    /\ Top.paid
    /\ ~once[Top.node]
    /\ owner[Top.node] = Top.sig

\* C6: while enabled is false a dispatch, on either kind of signal, invokes
\* nothing, consumes no once-binding and leaves the list as it is, and the
\* promise of AsyncSignal.dispatch is already resolved; a dispatch made once
\* enabled is true again starts at the head with every attached binding
\* before it, and invokes them all when its handlers leave the list alone.
DisabledGate ==
    [][/\ \A s \in Signals :
            (~enabled[s] /\ Dispatch(s)) =>
               /\ UNCHANGED <<nb, once, listVars, enabled, stack, fired>>
               /\ ret' = Returned(s)
               /\ s = "async" =>
                     \E p \in Slots :
                        /\ promises[p] = Free
                        /\ promises'[p].st = "resolved"
                        /\ \A q \in Slots \ {p} : promises'[q] = promises[q]
       /\ \A s \in Signals :
            (enabled[s] /\ hasAny(s) /\ Dispatch(s)) =>
               /\ Len(stack') = Len(stack) + 1
               /\ Top'.sig = s
               /\ Top'.node = head[s]
               /\ Top'.snap = handlers(s)
               /\ Top'.snap = Ascending(Attached(s))
       /\ (LoopEnds /\ ~Top.mut) => Top.trace = Top.snap]_vars

DisabledGateWitness ==
    /\ stack = <<>>
    /\ ~enabled["async"]
    /\ ret = "promise"
    /\ \E p \in Slots : promises[p] = NewPromise("none", "resolved", FALSE)
    /\ \E b \in Bindings : once[b] /\ owner[b] = "async" /\ fired[b] = 0

\* C7: detachAll leaves hasAny() false, handlers() empty and has(b) false
\* for every binding; an add on the emptied signal gives a list that holds
\* the new binding only.
DetachAllEmpties ==
    [][/\ \A s \in Signals :
            SignalDetachAll(s) =>
               /\ ~hasAny(s)'
               /\ handlers(s)' = <<>>
               /\ \A b \in Bindings : ~has(s, b)'
       /\ \A s \in Signals, isOnce \in BOOLEAN :
            (~hasAny(s) /\ Add(s, isOnce)) => handlers(s)' = <<nb + 1>>]_vars

DetachAllWitness ==
    /\ nb = 3
    /\ owner[1] = NoOwner /\ owner[2] = NoOwner
    /\ next[1] = 2 /\ prev[2] = 1
    /\ \E s \in Signals : handlers(s) = <<3>> /\ tail[s] = 3
    /\ prev[3] = Null

\* C8: Binding.detach on an attached binding returns true and clears the
\* owner; on a detached binding it returns false and changes nothing; and a
\* binding whose owner is null keeps a null owner for ever.
DetachIdempotent ==
    [][/\ \A b \in Bindings :
            BindingDetach(b) =>
               IF owner[b] # NoOwner
               THEN ret' = "true" /\ owner'[b] = NoOwner
               ELSE ret' = "false" /\ UNCHANGED <<nb, once, listVars, enabled, stack, fired>>
       /\ \A b \in 1..nb : owner[b] = NoOwner => owner'[b] = NoOwner]_vars

DetachIdempotentWitness ==
    /\ ret = "false"
    /\ nb = 1
    /\ ~once[1]
    /\ owner[1] = NoOwner

\* C9: S.detach(b) for a binding b that S does not own (b is owned by the
\* other signal, or by none) returns without changing any list, link or
\* owner.
ForeignDetachNoOp ==
    [][\A s \in Signals, b \in Bindings :
          (owner[b] # s /\ SignalDetach(s, b)) =>
             /\ UNCHANGED <<nb, once, listVars, enabled, fired>>
             /\ ret' = "this"]_vars

ForeignDetachWitness ==
    /\ ret = "this"
    /\ nb = 2
    /\ handlers("async") = <<1, 2>>
    /\ has("async", 1) /\ has("async", 2)
    /\ handlers("sig") = <<>>

\* ---- the list of s is well-formed
WellFormed(s) ==
    LET h == handlers(s)
    IN  /\ (head[s] = Null) <=> (tail[s] = Null)
        /\ Len(h) <= MaxBindings
        /\ \A i, j \in 1..Len(h) : h[i] = h[j] => i = j
        /\ h # <<>> => (h[Len(h)] = tail[s] /\ next[tail[s]] = Null)
        /\ \A i \in 1..Len(h) : owner[h[i]] = s

\* what a throwing handler leaves behind, whoever called the dispatch
FaultLeavesLoop ==
    /\ stack' = Pop(stack)
    /\ UNCHANGED <<nb, once, listVars, enabled, fired>>
    /\ \A s \in Signals : WellFormed(s)'
    /\ \A b \in Bindings : fired[b] > 0 => owner'[b] = NoOwner
    /\ ~Top.mut =>
          \A b \in Range(Top.snap) \ Range(Top.trace) : owner'[b] = Top.sig

\* C10 as stated: a fault raised by a handler reaches the caller of the
\* dispatch (a rejected promise counts for AsyncSignal), no later binding is
\* invoked, the list stays well-formed, the once-bindings invoked so far are
\* detached and the later bindings still attached.
FaultReachesCaller ==
    [][(stack # <<>> /\ HandlerThrow) =>
          /\ FaultLeavesLoop
          /\ IF Top.sig = "async"
             THEN promises'[Top.p].inner = "rejected"
             ELSE ret' = "fault"]_vars

\* C10 amended: the same, except that inside AsyncSignal.dispatch the fault
\* rejects the awaited promise only while that promise is pending; after the
\* completion callback has been called the fault is dropped.
FaultAbortsDispatch ==
    [][(stack # <<>> /\ HandlerThrow) =>
          /\ FaultLeavesLoop
          /\ IF Top.sig = "async"
             THEN promises'[Top.p].inner =
                     IF promises[Top.p].inner = "pending" THEN "rejected" ELSE "resolved"
             ELSE ret' = "fault"]_vars

FaultWitness ==
    /\ stack = <<>>
    /\ ret = "fault"
    /\ nb = 3
    /\ once[1] /\ fired[1] = 1 /\ ~has("sig", 1)
    /\ once[2] /\ fired[2] = 1 /\ ~has("sig", 2)
    /\ handlers("sig") = <<3>>

\* C14 as stated: every detached binding has a null owner and null next and
\* prev links.
DetachedLinksNull ==
    \A b \in 1..nb : owner[b] = NoOwner => (next[b] = Null /\ prev[b] = Null)

\* C14 amended: a binding that is in no list has a null owner, and a binding
\* whose owner is null after a step has the next and prev links it had
\* before the step: removal does not clear them and nothing changes them
\* later.
DetachedLinksKept ==
    [][/\ \A b \in 1..nb' :
            (\A s \in Signals : b \notin Range(handlers(s))') => owner'[b] = NoOwner
       /\ \A b \in 1..nb :
            owner'[b] = NoOwner => (next'[b] = next[b] /\ prev'[b] = prev[b])]_vars

DetachedLinksWitness ==
    /\ nb = 3
    /\ stack = <<>>
    /\ owner[2] = NoOwner /\ next[2] = 3 /\ prev[2] = 1
    /\ \E s \in Signals : handlers(s) = <<1, 3>>

\* C15: in every reachable state the list of each signal is well-formed:
\* head and tail are both null or both set, the path from head along next
\* visits distinct bindings, ends at tail and then null, and every binding
\* on it is owned by the signal.
ListWellFormed == \A s \in Signals : WellFormed(s)

ListWellFormedWitness ==
    /\ Len(stack) = 2
    /\ nb = 3
    /\ once[1] /\ owner[1] = NoOwner /\ next[1] = 2
    /\ owner[2] = NoOwner
    /\ \E s \in Signals : handlers(s) = <<3>> /\ head[s] = 3 /\ tail[s] = 3

\* C16: a binding's owner is signal s exactly when the binding is on the
\* path from the head of s, so a binding with an owner is in the list of
\* exactly one signal, a binding without is in none, and has(b) is
\* membership in handlers().
OwnerIffListed ==
    /\ \A s \in Signals, b \in Bindings : has(s, b) <=> b \in Range(handlers(s))
    /\ \A b \in Bindings :
          Cardinality({s \in Signals : b \in Range(handlers(s))})
             = IF owner[b] = NoOwner THEN 0 ELSE 1

OwnerIffListedWitness ==
    /\ nb = 3
    /\ handlers("sig") # <<>>
    /\ handlers("async") # <<>>
    /\ \E b \in Bindings : owner[b] = NoOwner
    /\ stack # <<>>

\* the sequence q without the element b
Without(q, b) == SelectSeq(q, LAMBDA x : x # b)

\* C17: detach of an attached binding b removes exactly b: handlers()
\* afterwards is handlers() before without b, in the same order; head and
\* tail are its first and last element, or null when it is empty; the list
\* of the other signal is as it was.
DetachRemovesExactly ==
    [][\A s \in Signals, b \in Bindings :
          (owner[b] = s /\ (SignalDetach(s, b) \/ BindingDetach(b))) =>
             LET h == Without(handlers(s), b)
             IN  /\ b \in Range(handlers(s))
                 /\ handlers(s)' = h
                 /\ head'[s] = IF h = <<>> THEN Null ELSE h[1]
                 /\ tail'[s] = IF h = <<>> THEN Null ELSE h[Len(h)]
                 /\ \A t \in Signals \ {s} :
                       /\ handlers(t)' = handlers(t)
                       /\ head'[t] = head[t]
                       /\ tail'[t] = tail[t]]_vars

DetachRemovesWitness ==
    /\ nb = 3
    /\ stack = <<>>
    /\ owner[2] = NoOwner
    /\ \E s \in Signals :
          /\ handlers(s) = <<1, 3>>
          /\ prev[3] = 1
          /\ head[s] = 1 /\ tail[s] = 3

\* ---- dispatch loops whose handlers return and add nothing: bindings are
\* ---- added between dispatches only, a Signal is dispatched from outside
\* ---- only, and the re-entrant dispatches are those of the AsyncSignal, as
\* ---- many as there are promises to follow.  The running handler returns
\* ---- in the end (WF).
AddOutside(s, isOnce) == stack = <<>> /\ Add(s, isOnce)

DispatchOutside(s) == stack = <<>> /\ Dispatch(s)

NextLoop ==
    \/ \E s \in Signals, isOnce \in BOOLEAN : AddOutside(s, isOnce)
    \/ \E s \in Signals, node \in Bindings : SignalDetach(s, node)
    \/ \E node \in Bindings : BindingDetach(node)
    \/ \E s \in Signals : SignalDetachAll(s)
    \/ DispatchOutside("sig")
    \/ Dispatch("async")
    \/ HandlerReturn

SpecLoop == Init /\ [][NextLoop]_vars /\ WF_vars(HandlerReturn)

\* C18: every next link, stale ones included, points to a binding constructed
\* later than its holder; so each turn of a dispatch loop moves to a binding
\* constructed later than the one it leaves, a loop invokes no binding
\* twice, and every dispatch whose handlers add nothing comes to its end.
DispatchTerminates ==
    /\ [][/\ \A b \in Bindings : next'[b] # Null => (next'[b] > b /\ next'[b] <= nb')
          /\ \A i \in 1..Len(stack) :
               (i <= Len(stack') /\ stack'[i].node # stack[i].node) =>
                  /\ stack[i].node < stack'[i].node
                  /\ stack'[i].node <= nb
          /\ \A i \in 1..Len(stack') :
               ~stack'[i].mut =>
                  \A j, k \in 1..Len(stack'[i].trace) :
                     j < k => stack'[i].trace[j] < stack'[i].trace[k]]_vars
    /\ \A d \in 1..MaxDepth : (Len(stack) = d) ~> (Len(stack) < d)

DispatchTerminatesWitness ==
    /\ Len(stack) = 1
    /\ nb = 3
    /\ \A b \in Bindings : ~once[b] /\ owner[b] = NoOwner
    /\ next[1] = 2 /\ next[2] = 3
    /\ Top.node = 3

\* C19: when the handler of a binding that is still attached adds a binding
\* to the signal being dispatched, the new binding is the last one on the
\* chain of next links ahead of the loop, behind every binding attached
\* before it; and for every loop standing on an attached binding the chain
\* ahead is exactly the rest of the list, so the loop reaches the new
\* binding after the others unless bindings are detached.
AddedDuringDispatchIsAhead ==
    [][/\ \A isOnce \in BOOLEAN :
            (stack # <<>> /\ owner[Top.node] = Top.sig /\ Add(Top.sig, isOnce)) =>
               LET a == Walk(Cur, next[Top.node], MaxBindings + 1)
                   b == Walk(Cur', next'[Top.node], MaxBindings + 1)
               IN  b = Append(a, nb + 1)
       /\ \A i \in 1..Len(stack') :
            LET f == stack'[i]
                h == HandlersOf(Cur', f.sig)
            IN  owner'[f.node] = f.sig =>
                  \E k \in 1..Len(h) :
                     /\ h[k] = f.node
                     /\ Walk(Cur', next'[f.node], MaxBindings + 1)
                           = SubSeq(h, k + 1, Len(h))]_vars

AddedDuringDispatchWitness ==
    /\ Len(stack) = 1
    /\ Top.mut
    /\ nb = 3
    /\ \A b \in Bindings : ~once[b] /\ owner[b] = Top.sig
    /\ Top.node = 3

\* C20: among attached bindings prev mirrors next: the head has no prev, the
\* tail has no next, each binding of the list is the prev of its successor
\* and the next of its predecessor, and the links of an attached binding
\* lead only to bindings attached to the same signal.
PrevMirrorsNext ==
    \A s \in Signals :
       LET h == handlers(s)
       IN  /\ h # <<>> => (prev[h[1]] = Null /\ next[h[Len(h)]] = Null)
           /\ \A i \in 1..Len(h) :
                 /\ i < Len(h) => (next[h[i]] = h[i + 1] /\ prev[h[i + 1]] = h[i])
                 /\ i > 1 => (prev[h[i]] = h[i - 1] /\ next[h[i - 1]] = h[i])
                 /\ next[h[i]] # Null => owner[next[h[i]]] = s
                 /\ prev[h[i]] # Null => owner[prev[h[i]]] = s

PrevMirrorsNextWitness ==
    /\ nb = 3
    /\ stack # <<>>
    /\ owner[1] = NoOwner
    /\ \E s \in Signals : handlers(s) = <<2, 3>> /\ prev[2] = Null /\ prev[3] = 2

\* ---- AsyncSignal on its own, with handlers that return: bindings are added
\* ---- between dispatches; a handler may call the completion callback, now
\* ---- or later, and may dispatch again.  The running handler returns in
\* ---- the end (WF) and the event loop resumes an `await` whose promise is
\* ---- settled whenever no synchronous code is running (SF).
NextAsync ==
    \/ \E isOnce \in BOOLEAN : AddOutside("async", isOnce)
    \/ \E v \in BOOLEAN : SetEnabled("async", v)
    \/ Dispatch("async")
    \/ HandlerReturn
    \/ \E p \in Slots : Resolve(p)
    \/ \E p \in Slots : Settle(p)
    \/ \E p \in Slots : Forget(p)

SpecAsync ==
    /\ Init
    /\ [][NextAsync]_vars
    /\ WF_vars(HandlerReturn)
    /\ \A p \in Slots : SF_vars(Settle(p))

\* C11: the promise of an AsyncSignal.dispatch whose handlers were given the
\* completion callback completes once some handler has called it, whichever
\* and however many do; it completes only when no dispatch loop is running,
\* every loop that ran to its end with the list left alone has invoked all
\* the bindings it started with, and a completed promise stays completed.
AsyncCompletesOnce ==
    /\ [][/\ \A p \in Slots :
               /\ (promises[p].st = "pending" /\ promises'[p].st # "pending") =>
                     /\ stack = <<>>
                     /\ promises'[p].st = IF promises[p].given THEN "resolved" ELSE "free"
                     /\ promises[p].given => promises[p].inner = "resolved"
               /\ (promises[p].inner = "pending" /\ promises'[p].inner = "resolved") =>
                     promises[p].given
               /\ promises[p].st = "resolved" => promises'[p].st \in {"resolved", "free"}
               /\ (promises[p] = Free /\ promises'[p] # Free /\ enabled["async"]) =>
                     promises'[p].st = "pending"
          /\ (LoopEnds /\ ~Top.mut) => Top.trace = Top.snap]_vars
    /\ \A p \in Slots :
          (promises[p].inner = "resolved" /\ promises[p].st = "pending")
             ~> (promises[p].st = "resolved")

AsyncCompletesWitness ==
    /\ stack = <<>>
    /\ nb = 3
    /\ handlers("async") = <<1, 2, 3>>
    /\ \E p \in Slots : promises[p] = NewPromise("resolved", "resolved", TRUE)

\* C12 as stated: a dispatch on an enabled signal without bindings invokes
\* nothing and changes nothing, and the promise an AsyncSignal returns for
\* it does not stay pending for ever.
EmptyDispatchCompletes ==
    /\ [][\A s \in Signals :
             (enabled[s] /\ ~hasAny(s) /\ Dispatch(s)) =>
                UNCHANGED <<nb, once, listVars, enabled, stack, fired>>]_vars
    /\ \A p \in Slots :
          (promises[p].st = "pending" /\ ~promises[p].given)
             ~> (promises[p].st # "pending")

\* ---- dispatches with arguments: bindings are added between dispatches, a
\* ---- caller (outside or a handler) dispatches either signal with 0 to
\* ---- MaxArgs arguments, handlers return
NextArgs ==
    \/ \E s \in Signals, isOnce \in BOOLEAN : AddOutside(s, isOnce)
    \/ \E s \in Signals : Dispatch(s)
    \/ HandlerReturn
    \/ \E p \in Slots : Resolve(p)
    \/ \E p \in Slots : Settle(p)
    \/ \E p \in Slots : Forget(p)

SpecArgs == InitArgs /\ [][NextArgs]_vars

\* the step invokes the fn of the binding the innermost loop stands on
Invokes ==
    /\ stack' # <<>>
    /\ \/ Len(stack') > Len(stack)
       \/ Len(stack') = Len(stack) /\ Top'.node # Top.node

\* C13: every handler a dispatch invokes is called with exactly the arguments
\* the caller of that dispatch supplied, in their positions, for 0 to
\* MaxArgs arguments; on an AsyncSignal with the resolve callback in front
\* of them.
ArgumentsForwarded ==
    [][/\ Invokes =>
            /\ Top'.args \in ArgLists
            /\ got' = IF Top'.sig = "async"
                      THEN <<ResolveFn>> \o Top'.args
                      ELSE Top'.args
       /\ \A i \in 1..Len(stack) :
            i <= Len(stack') => stack'[i].args = stack[i].args]_vars

ArgumentsForwardedWitness ==
    /\ Len(stack) = 2
    /\ stack[1].sig = "sig"
    /\ stack[1].args = <<1, 2, 3, 4, 5, 6>>
    /\ Top.sig = "async"
    /\ Top.node # head["async"]
    /\ Top.args = <<1, 2, 3, 4, 5>>
    /\ got = <<0, 1, 2, 3, 4, 5>>

====
